---------------------------- MODULE Spec2Model ----------------------------
(***************************************************************************)
(* A model of the Mercado Livre scrapers: scrape_ml_product.py (product    *)
(* page extraction) and scrape_ml_search.py (bounded pagination).          *)
(*                                                                         *)
(* Conventions.  A Python Optional value is a sequence of length at most   *)
(* one: None is <<>>, a value x is <<x>>.  A Python str is a sequence of   *)
(* characters; a character is a one-letter TLA+ string, and a non-ASCII    *)
(* character is named ("u_acute" for U+00FA, "sup2" for U+00B2).  A float  *)
(* is an exact decimal [m, e] standing for m / 10^e.  The result of a call *)
(* is a record [raised, exc, val].                                         *)
(***************************************************************************)
EXTENDS Integers, Sequences, FiniteSets, TLC

VARIABLES
    pc,          \* position of the running call
    arg,         \* the argument of a helper called on its own
    ret,         \* the result of a helper called on its own
    browser,     \* the Chrome session: "none", "open" or "closed"
    quits,       \* number of driver.quit() calls made
    outcome,     \* how the call ended: [raised, exc, val]; pending in "finally"
    limit,       \* scrape_ml_search: parameter limit
    pages,       \* scrape_ml_search: parameter pages
    current_url, \* scrape_ml_search: current_url
    visited,     \* scrape_ml_search: visited
    results,     \* scrape_ml_search: results
    items,       \* scrape_ml_search: the part of items the for loop has not reached yet
    loaded,      \* scrape_ml_search: history of driver.get: what each loaded page held
    json_ld,     \* scrape_ml_product: json_ld
    found,       \* scrape_ml_product: what the DOM yielded: the title, the gallery
                 \* sources, and the elements of the latest find_elements
    title,       \* scrape_ml_product: title
    price,       \* scrape_ml_product: price
    stock,       \* scrape_ml_product: [msg |-> stock_msg, in_stock |-> in_stock]
    var_options, \* scrape_ml_product: var_options (var_active is not modelled)
    attributes,  \* scrape_ml_product: attributes
    images,      \* scrape_ml_product: images
    counts,      \* scrape_ml_product: rating_avg, rating_count and qna_count
    data         \* scrape_ml_product: data

hvars == <<pc, arg, ret>>
dvars == <<browser, quits, outcome>>
svars == <<limit, pages, current_url, visited, results, items, loaded>>
pvars == <<json_ld, found, title, price, stock, var_options, attributes, images, counts, data>>
vars == <<pc, arg, ret, browser, quits, outcome,
          limit, pages, current_url, visited, results, items, loaded,
          json_ld, found, title, price, stock, var_options, attributes, images, counts,
          data>>

-----------------------------------------------------------------------------
(* Python values *)

None == <<>>
Some(x) == <<x>>
Val(o) == o[1]

\* bool(value) of an Optional[str]: None and "" are false.
Truthy(o) == o # None /\ Val(o) # <<>>

Returned(v) == [raised |-> FALSE, exc |-> "", val |-> v]
Raised(e) == [raised |-> TRUE, exc |-> e, val |-> None]

\* All sequences over S of length at most n.
SeqsUpTo(S, n) == UNION {[1..k -> S] : k \in 0..n}

RECURSIVE Concat(_)
Concat(ss) == IF ss = <<>> THEN <<>> ELSE Head(ss) \o Concat(Tail(ss))

Digits == {"0", "1", "2", "3", "4", "5", "6", "7", "8", "9"}

DigitVal(c) ==
    CASE c = "0" -> 0 [] c = "1" -> 1 [] c = "2" -> 2 [] c = "3" -> 3 [] c = "4" -> 4
      [] c = "5" -> 5 [] c = "6" -> 6 [] c = "7" -> 7 [] c = "8" -> 8 [] c = "9" -> 9

RECURSIVE Pow10(_)
Pow10(n) == IF n = 0 THEN 1 ELSE 10 * Pow10(n - 1)

\* The characters of s that are in Keep, in order (re.sub of the others by "").
RECURSIVE Filter(_, _)
Filter(s, Keep) ==
    IF s = <<>> THEN <<>>
    ELSE IF Head(s) \in Keep THEN <<Head(s)>> \o Filter(Tail(s), Keep)
    ELSE Filter(Tail(s), Keep)

\* int(s) of a non-empty string of ASCII digits.
RECURSIVE IntOfDigits(_)
IntOfDigits(s) ==
    IF s = <<>> THEN 0
    ELSE IntOfDigits(SubSeq(s, 1, Len(s) - 1)) * 10 + DigitVal(s[Len(s)])

\* str(n) for n >= 0.
RECURSIVE DigitsOfInt(_)
DigitsOfInt(n) ==
    LET d == CHOOSE c \in Digits : DigitVal(c) = n % 10
    IN  IF n < 10 THEN <<d>> ELSE DigitsOfInt(n \div 10) \o <<d>>

\* A decimal m / 10^e without trailing zeros in its fraction.
RECURSIVE Normal(_, _)
Normal(m, e) == IF e > 0 /\ m % 10 = 0 THEN Normal(m \div 10, e - 1) ELSE [m |-> m, e |-> e]

-----------------------------------------------------------------------------
(* _try_selectors *)

\* What driver.find_element(by, sel) does for one selector: raises
\* NoSuchElementException, raises another WebDriverException, or returns an
\* element with a text and, for the attribute asked, a value or None.
NoSuch == [kind |-> "NoSuchElementException", text |-> <<>>, attribute |-> None]
OtherError == [kind |-> "WebDriverException", text |-> <<>>, attribute |-> None]
Element(t, a) == [kind |-> "element", text |-> t, attribute |-> a]

RECURSIVE _try_selectors_wrong(_, _)
_try_selectors_wrong(selectors, attr) ==
    IF selectors = <<>> THEN Returned(None)
    ELSE LET el == Head(selectors)
             val == IF attr # None THEN el.attribute ELSE Some(el.text)
         IN  CASE el.kind = "NoSuchElementException" -> _try_selectors_wrong(Tail(selectors), attr)
               [] el.kind = "WebDriverException" -> Raised("WebDriverException")
               [] OTHER -> IF val # None THEN Returned(val)
                           ELSE _try_selectors_wrong(Tail(selectors), attr)

RECURSIVE _try_selectors(_, _)
_try_selectors(selectors, attr) ==
    IF selectors = <<>> THEN Returned(None)
    ELSE LET el == Head(selectors)
             val == IF attr # None THEN el.attribute ELSE Some(el.text)
         IN  CASE el.kind = "NoSuchElementException" -> _try_selectors(Tail(selectors), attr)
               [] el.kind = "WebDriverException" -> Raised("WebDriverException")
               [] OTHER -> IF Truthy(val) THEN Returned(val)
                           ELSE _try_selectors(Tail(selectors), attr)

-----------------------------------------------------------------------------
(* _parse_price *)

\* float(s) for s made of ASCII digits and ".": a ValueError unless s has at
\* least one digit and at most one ".".
ParseFloat(s) ==
    LET dots == Filter(s, {"."})
        digs == Filter(s, Digits)
        dot == CHOOSE i \in 1..Len(s) : s[i] = "."
    IN  IF Len(dots) > 1 \/ digs = <<>> THEN Raised("ValueError")
        ELSE IF dots = <<>> THEN Returned(Some(Normal(IntOfDigits(digs), 0)))
        ELSE Returned(Some(Normal(IntOfDigits(digs), Len(s) - dot)))

\* str.replace(old, new) for one-character old; new is a string.
RECURSIVE Replace(_, _, _)
Replace(s, old, new) ==
    IF s = <<>> THEN <<>>
    ELSE (IF Head(s) = old THEN new ELSE <<Head(s)>>) \o Replace(Tail(s), old, new)

_parse_price(value) ==
    LET cleaned == Filter(Val(value), Digits \cup {","})
    IN  IF ~Truthy(value) THEN Returned(None)
        ELSE IF cleaned = <<>> THEN Returned(None)
        ELSE ParseFloat(Replace(Replace(cleaned, ".", <<>>), ",", <<".">>))

-----------------------------------------------------------------------------
(* Availability inference and count parsing, inline in scrape_ml_product *)

\* Case folding of re.I.
Lower(c) ==
    CASE c = "A" -> "a" [] c = "C" -> "c" [] c = "D" -> "d" [] c = "E" -> "e"
      [] c = "G" -> "g" [] c = "I" -> "i" [] c = "L" -> "l" [] c = "M" -> "m"
      [] c = "O" -> "o" [] c = "P" -> "p" [] c = "S" -> "s" [] c = "T" -> "t"
      [] c = "U_acute" -> "u_acute" [] OTHER -> c

\* re.search(pat, s, re.I) for a literal lower-case pat: pat occurs in s.
SearchI(pat, s) ==
    \E i \in 1..(Len(s) - Len(pat) + 1) :
        \A k \in 1..Len(pat) : Lower(s[i + k - 1]) = pat[k]

esgotado == <<"e", "s", "g", "o", "t", "a", "d", "o">>
ultimo == <<"u_acute", "l", "t", "i", "m", "o">>

\* in_stock: None, or not bool(re.search("(esgotado|último)", stock_msg, re.I)).
InStock(stock_msg) ==
    IF Truthy(stock_msg)
    THEN Some(~(SearchI(esgotado, Val(stock_msg)) \/ SearchI(ultimo, Val(stock_msg))))
    ELSE None

\* str.isdigit() is true of the decimal digits and of other digit characters
\* such as the superscript two, which int() rejects.
IsDigitStr(s) == s # <<>> /\ \A i \in 1..Len(s) : s[i] \in Digits \cup {"sup2"}

\* int(s): a ValueError unless s is a non-empty string of decimal digits.
PyInt(s) ==
    IF s # <<>> /\ \A i \in 1..Len(s) : s[i] \in Digits
    THEN Returned(Some(IntOfDigits(s)))
    ELSE Raised("ValueError")

\* "rating_count": int(rating_count) if rating_count and rating_count.isdigit() else None
RatingCount(rating_count) ==
    IF Truthy(rating_count) /\ IsDigitStr(Val(rating_count))
    THEN PyInt(Val(rating_count))
    ELSE Returned(None)

\* "qna_count": int(re.sub(r"\D", "", qna_count)) if qna_count else None
QnaCount(qna_count) ==
    IF Truthy(qna_count) THEN PyInt(Filter(Val(qna_count), Digits)) ELSE Returned(None)

-----------------------------------------------------------------------------
(* The helpers called on their own, on bounded inputs *)

MaxSelectors == 3
MaxTextLen == 3
MaxWords == 2

NoDriver == [raised |-> FALSE, exc |-> "", val |-> None]

\* The variables of a scraper that is not running.
IdleDriver == browser = "none" /\ quits = 0 /\ outcome = NoDriver

IdleSearch ==
    /\ limit = 0 /\ pages = 0 /\ current_url = None /\ visited = 0
    /\ results = <<>> /\ items = <<>> /\ loaded = <<>>

IdleProduct ==
    /\ json_ld = None /\ found = None /\ title = None /\ price = None
    /\ stock = None /\ var_options = <<>> /\ attributes = <<>> /\ images = <<>>
    /\ counts = None /\ data = None

Idle == IdleDriver /\ IdleSearch /\ IdleProduct

NoRet == [fn |-> "", result |-> Returned(None)]

\* _try_selectors on every chain of at most MaxSelectors lookups.
LookupOutcomes ==
    {NoSuch, OtherError}
        \cup {Element(t, a) : t \in {<<>>, <<"a">>, <<"b">>},
                               a \in {None, Some(<<>>), Some(<<"c">>), Some(<<"d">>)}}

InitSelectors ==
    /\ pc = "call" /\ ret = NoRet /\ Idle
    /\ arg \in [selectors : SeqsUpTo(LookupOutcomes, MaxSelectors),
                attr : {None, Some(<<"c", "o", "n", "t", "e", "n", "t">>)}]

CallTrySelectors ==
    /\ pc = "call"
    /\ pc' = "done"
    /\ ret' = [fn |-> "_try_selectors", result |-> _try_selectors(arg.selectors, arg.attr)]
    /\ UNCHANGED <<arg, dvars, svars, pvars>>

NextSelectors == CallTrySelectors

SpecSelectors == InitSelectors /\ [][NextSelectors]_vars

\* _parse_price on None, on every text of at most MaxTextLen characters, and
\* on the documented examples.
PriceChars == {"0", "5", ",", ".", "$"}

PriceExample == <<"R", "$", " ", "1", ".", "2", "3", "4", ",", "5", "6">>

PriceTexts == SeqsUpTo(PriceChars, MaxTextLen) \cup {PriceExample, <<"emdash">>}

InitPrice ==
    /\ pc = "call" /\ ret = NoRet /\ Idle
    /\ arg \in {None} \cup {Some(t) : t \in PriceTexts}

CallParsePrice ==
    /\ pc = "call"
    /\ pc' = "done"
    /\ ret' = [fn |-> "_parse_price", result |-> _parse_price(arg)]
    /\ UNCHANGED <<arg, dvars, svars, pvars>>

NextPrice == CallParsePrice

SpecPrice == InitPrice /\ [][NextPrice]_vars

\* The availability inference on None and on every message of at most
\* MaxWords words.
Words ==
    { <<"P", "r", "o", "d", "u", "t", "o", " ">>,
      esgotado,
      <<"E", "S", "G", "O", "T", "A", "D", "O">>,
      <<"e", "s", "g", "o", "t", "a">>,
      <<"d", "o">>,
      ultimo,
      <<"U_acute", "l", "t", "i", "m", "o">>,
      <<"u", "l", "t", "i", "m", "o">>,
      <<"U_acute", "l", "t", "i", "m", "a", "s", " ", "u", "n", "i", "d", "a", "d", "e", "s">>,
      <<"C", "h", "e", "g", "a", " ", "g", "r", "a_acute", "t", "i", "s">> }

Messages == {Concat(ws) : ws \in SeqsUpTo(Words, MaxWords)}

InitStock ==
    /\ pc = "call" /\ ret = NoRet /\ Idle
    /\ arg \in {None} \cup {Some(m) : m \in Messages}

CallInStock ==
    /\ pc = "call"
    /\ pc' = "done"
    /\ ret' = [fn |-> "in_stock", result |-> Returned(InStock(arg))]
    /\ UNCHANGED <<arg, dvars, svars, pvars>>

NextStock == CallInStock

SpecStock == InitStock /\ [][NextStock]_vars

\* The two count conversions on None and on every text of at most MaxTextLen
\* characters, and on a parenthesised count.
CountChars == {"0", "1", "2", "(", "a", "sup2"}

CountTexts == SeqsUpTo(CountChars, MaxTextLen) \cup {<<"(", "1", "2", "3", ")">>}

InitCounts ==
    /\ pc = "call" /\ ret = NoRet /\ Idle
    /\ arg \in {None} \cup {Some(t) : t \in CountTexts}

CallRatingCount ==
    /\ pc = "call"
    /\ pc' = "done"
    /\ ret' = [fn |-> "rating_count", result |-> RatingCount(arg)]
    /\ UNCHANGED <<arg, dvars, svars, pvars>>

CallQnaCount ==
    /\ pc = "call"
    /\ pc' = "done"
    /\ ret' = [fn |-> "qna_count", result |-> QnaCount(arg)]
    /\ UNCHANGED <<arg, dvars, svars, pvars>>

NextCounts == CallRatingCount \/ CallQnaCount

SpecCounts == InitCounts /\ [][NextCounts]_vars

-----------------------------------------------------------------------------
(* scrape_ml_search *)

MaxLimit == 3
MaxPages == 3
MaxItems == 2

Urls == {<<"url1">>, <<"url2">>}

\* The calls made: every limit up to MaxLimit and page count up to MaxPages
\* on a site whose pages hold at most MaxItems items, any of which may lack a
\* field; and limit 15, 2 pages on a site whose pages hold ten complete items.
Calls ==
    [url : Urls, limit : 0..MaxLimit, pages : 0..MaxPages, site : {"small"}]
        \cup [url : Urls, limit : {15}, pages : {2}, site : {"tens"}]

\* What find_elements("li.ui-search-layout__item") can return on a site: for
\* each item, whether its title, link and price can all be read.
PageContents(site) ==
    IF site = "tens" THEN {[i \in 1..10 |-> TRUE]} ELSE SeqsUpTo(BOOLEAN, MaxItems)

InitSearch ==
    /\ pc = "start" /\ ret = NoRet /\ IdleDriver /\ IdleProduct
    /\ arg \in Calls
    /\ limit = arg.limit /\ pages = arg.pages
    /\ current_url = None /\ visited = 0
    /\ results = <<>> /\ items = <<>> /\ loaded = <<>>

\* driver = _init_driver(): webdriver.Chrome(...) raises, and no session exists.
SearchInitDriverFails ==
    /\ pc = "start"
    /\ pc' = "done"
    /\ outcome' = Raised("WebDriverException")
    /\ UNCHANGED <<arg, ret, browser, quits, svars, pvars>>

\* driver = _init_driver(); results = []; current_url = url; visited = 0
SearchInitDriver ==
    /\ pc = "start"
    /\ pc' = "while"
    /\ browser' = "open"
    /\ current_url' = Some(arg.url)
    /\ visited' = 0
    /\ results' = <<>>
    /\ UNCHANGED <<arg, ret, quits, outcome, limit, pages, items, loaded, pvars>>

\* while visited < pages and len(results) < limit; after the loop, finally and return.
SearchWhile ==
    /\ pc = "while"
    /\ IF visited < pages /\ Len(results) < limit
       THEN pc' = "get" /\ UNCHANGED outcome
       ELSE pc' = "finally" /\ outcome' = Returned(Some(results))
    /\ UNCHANGED <<arg, ret, browser, quits, svars, pvars>>

\* driver.get(current_url) or find_elements raises.
SearchGetFails ==
    /\ pc = "get"
    /\ pc' = "finally"
    /\ outcome' = Raised("WebDriverException")
    /\ UNCHANGED <<arg, ret, browser, quits, svars, pvars>>

\* driver.get(current_url); items = driver.find_elements(...)
SearchGet ==
    /\ pc = "get"
    /\ \E content \in PageContents(arg.site) :
        /\ items' = [i \in 1..Len(content) |-> [pos |-> i, ok |-> content[i]]]
        /\ loaded' = Append(loaded, [items |-> content, had |-> Len(results),
                                     next |-> "unread"])
    /\ pc' = "for"
    /\ UNCHANGED <<arg, ret, dvars, limit, pages, current_url, visited, results, pvars>>

\* for item in items: exhausted.
SearchForEnd ==
    /\ pc = "for"
    /\ items = <<>>
    /\ pc' = "after"
    /\ UNCHANGED <<arg, ret, dvars, svars, pvars>>

\* if len(results) >= limit: break
SearchForBreak ==
    /\ pc = "for"
    /\ items # <<>>
    /\ Len(results) >= limit
    /\ pc' = "after"
    /\ UNCHANGED <<arg, ret, dvars, svars, pvars>>

\* A find_element of the item raises: except Exception: continue
SearchItemSkip ==
    /\ pc = "for"
    /\ items # <<>>
    /\ Len(results) < limit
    /\ ~Head(items).ok
    /\ items' = Tail(items)
    /\ UNCHANGED <<pc, arg, ret, dvars, limit, pages, current_url, visited, results,
                   loaded, pvars>>

SearchItemAppend_NoLimit ==
    /\ pc = "for"
    /\ items # <<>>
    /\ Head(items).ok
    /\ results' = Append(results, [page |-> Len(loaded), pos |-> Head(items).pos])
    /\ items' = Tail(items)
    /\ UNCHANGED <<pc, arg, ret, dvars, limit, pages, current_url, visited, loaded, pvars>>

\* results.append({"title": title, "link": link, "price": price})
SearchItemAppend ==
    /\ pc = "for"
    /\ items # <<>>
    /\ Len(results) < limit
    /\ Head(items).ok
    /\ results' = Append(results, [page |-> Len(loaded), pos |-> Head(items).pos])
    /\ items' = Tail(items)
    /\ UNCHANGED <<pc, arg, ret, dvars, limit, pages, current_url, visited, loaded, pvars>>

\* The log of the latest page with the outcome of the next-page lookup.
NoteNext(how) == [loaded EXCEPT ![Len(loaded)].next = how]

\* visited += 1; if visited >= pages or len(results) >= limit: break
SearchAfterStop ==
    /\ pc = "after"
    /\ visited' = visited + 1
    /\ visited' >= pages \/ Len(results) >= limit
    /\ pc' = "finally"
    /\ outcome' = Returned(Some(results))
    /\ UNCHANGED <<arg, ret, browser, quits, limit, pages, current_url, results, items,
                   loaded, pvars>>

SearchNextMissing_Raises ==
    /\ pc = "after"
    /\ visited' = visited + 1
    /\ ~(visited' >= pages \/ Len(results) >= limit)
    /\ loaded' = NoteNext("missing")
    /\ pc' = "finally"
    /\ outcome' = Raised("NoSuchElementException")
    /\ UNCHANGED <<arg, ret, browser, quits, limit, pages, current_url, results, items,
                   pvars>>

\* visited += 1; find_element("a.andes-pagination__link--next") raises:
\* except Exception: break
SearchNextMissing ==
    /\ pc = "after"
    /\ visited' = visited + 1
    /\ ~(visited' >= pages \/ Len(results) >= limit)
    /\ loaded' = NoteNext("missing")
    /\ pc' = "finally"
    /\ outcome' = Returned(Some(results))
    /\ UNCHANGED <<arg, ret, browser, quits, limit, pages, current_url, results, items,
                   pvars>>

\* visited += 1; current_url = next_btn.get_attribute("href"); if not current_url: break
SearchNextEmpty ==
    /\ pc = "after"
    /\ visited' = visited + 1
    /\ ~(visited' >= pages \/ Len(results) >= limit)
    /\ \E href \in {None, Some(<<>>)} : current_url' = href
    /\ loaded' = NoteNext("empty")
    /\ pc' = "finally"
    /\ outcome' = Returned(Some(results))
    /\ UNCHANGED <<arg, ret, browser, quits, limit, pages, results, items, pvars>>

\* visited += 1; current_url = next_btn.get_attribute("href"), and round the loop.
SearchNextFollow ==
    /\ pc = "after"
    /\ visited' = visited + 1
    /\ ~(visited' >= pages \/ Len(results) >= limit)
    /\ \E href \in Urls : current_url' = Some(href)
    /\ loaded' = NoteNext("followed")
    /\ pc' = "while"
    /\ UNCHANGED <<arg, ret, dvars, limit, pages, results, items, pvars>>

\* finally: driver.quit(); then the pending return or raise.
SearchQuit ==
    /\ pc = "finally"
    /\ browser' = "closed"
    /\ quits' = quits + 1
    /\ pc' = "done"
    /\ UNCHANGED <<arg, ret, outcome, svars, pvars>>

NextSearch ==
    \/ SearchInitDriverFails
    \/ SearchInitDriver
    \/ SearchWhile
    \/ SearchGetFails
    \/ SearchGet
    \/ SearchForEnd
    \/ SearchForBreak
    \/ SearchItemSkip
    \/ SearchItemAppend
    \/ SearchAfterStop
    \/ SearchNextMissing
    \/ SearchNextEmpty
    \/ SearchNextFollow
    \/ SearchQuit

\* The call runs on its own thread of control: a step that can be taken is taken.
SpecSearch == InitSearch /\ [][NextSearch]_vars /\ WF_vars(NextSearch)

-----------------------------------------------------------------------------
(* scrape_ml_product: the values a page can hold *)

MaxScripts == 2
MaxGroups == 2
MaxRows == 2
MaxImgs == 1

\* A Python dict is a function on its keys.
EmptyDict == <<>>
DictSet(d, k, v) == [x \in (DOMAIN d) \cup {k} |-> IF x = k THEN v ELSE d[x]]
DictGet(d, k) == IF k \in DOMAIN d THEN Some(d[k]) ELSE None

\* x or y, on Optional[str].
Or(x, y) == IF Truthy(x) THEN x ELSE y

\* A JSON-LD Product block: name and model are strings or missing; brand is
\* missing, a string, or a dict whose name may be missing; image is missing, a
\* string or a list.
NoBrand == [type |-> "none", name |-> None]
NoImage == [type |-> "none", v |-> <<>>]
NoBlock == [name |-> None, brand |-> NoBrand, model |-> None, image |-> NoImage]

ProductBlocks ==
    { [name |-> Some(<<"LdName">>), brand |-> [type |-> "str", name |-> Some(<<"LdBrand">>)],
       model |-> Some(<<"LdModel">>), image |-> [type |-> "str", v |-> <<<<"LdImage">>>>]],
      [name |-> Some(<<"LdName">>), brand |-> [type |-> "dict", name |-> Some(<<"LdBrand">>)],
       model |-> Some(<<"LdModel">>),
       image |-> [type |-> "list", v |-> <<<<"LdImage">>, <<"LdImage2">>>>]],
      [name |-> None, brand |-> [type |-> "dict", name |-> None],
       model |-> None, image |-> NoImage] }

\* A <script type="application/ld+json">: text that is not JSON, JSON that is
\* not a Product dict, or a Product block.
Scripts ==
    {[kind |-> "JSONDecodeError", block |-> NoBlock], [kind |-> "other", block |-> NoBlock]}
        \cup {[kind |-> "Product", block |-> b] : b \in ProductBlocks}

RECURSIVE _get_json_ld(_)
_get_json_ld(scripts) ==
    IF scripts = <<>> THEN NoBlock
    ELSE IF Head(scripts).kind = "Product" THEN Head(scripts).block
    ELSE _get_json_ld(Tail(scripts))

\* Every result _try_selectors can give on a chain of n selectors whose
\* elements, where found, are among elems.
Lookup(n, elems, attr) ==
    {_try_selectors(c, attr) : c \in [1..n -> {NoSuch, OtherError} \cup elems]}

Texts(ts) == {Element(t, None) : t \in ts}
Contents(as) == {Element(<<>>, a) : a \in as}

\* float(f"{int(price)}.{int(cents):02d}")
Composite(p, cents) ==
    LET whole == p.m \div Pow10(p.e)
        c == IntOfDigits(cents)
        width == IF Len(DigitsOfInt(c)) > 2 THEN Len(DigitsOfInt(c)) ELSE 2
    IN  Normal(whole * Pow10(width) + c, width)

\* A section.ui-pdp-variations: its subtitle (None when the lookup raises
\* NoSuchElementException) and the texts of its items.
Groups ==
    [subtitle : {None, Some(<<"Cor">>), Some(<<"Voltagem">>)}, opts : {<<<<"x">>>>}]

\* The loop of the variations try block: the first exception ends it.
RECURSIVE ExtractVariations(_, _)
ExtractVariations(blocks, options) ==
    IF blocks = <<>> THEN options
    ELSE IF Head(blocks).subtitle = None THEN options
    ELSE ExtractVariations(Tail(blocks),
                           DictSet(options, Val(Head(blocks).subtitle), Head(blocks).opts))

\* A tr of a specification table: th or td is not found, a lookup fails
\* otherwise, or both texts are read.
Rows ==
    { [kind |-> "NoSuchElementException", k |-> <<>>, v |-> <<>>],
      [kind |-> "WebDriverException", k |-> <<>>, v |-> <<>>],
      [kind |-> "row", k |-> <<>>, v |-> <<"v">>],
      [kind |-> "row", k |-> <<"Marca">>, v |-> <<"HP">>],
      [kind |-> "row", k |-> <<"Modelo">>, v |-> <<"X1">>] }

\* The loop of the attributes try block: a row whose th or td is not found is
\* passed over, any other exception ends the loop.
RECURSIVE ExtractAttributes(_, _)
ExtractAttributes(rows, attrs) ==
    IF rows = <<>> THEN attrs
    ELSE LET row == Head(rows)
         IN  CASE row.kind = "NoSuchElementException" -> ExtractAttributes(Tail(rows), attrs)
               [] row.kind = "WebDriverException" -> attrs
               [] OTHER -> ExtractAttributes(Tail(rows),
                               IF row.k # <<>> THEN DictSet(attrs, row.k, row.v) ELSE attrs)

\* An img of the gallery: its data-zoom, data-src and src attributes.
Imgs ==
    [data_zoom : {None, Some(<<"zoom.jpg">>)}, data_src : {None},
     src : {None, Some(<<"src.jpg">>)}]

\* The loop of the images try block.
RECURSIVE ExtractImages(_, _)
ExtractImages(imgs, acc) ==
    IF imgs = <<>> THEN acc
    ELSE LET src == Or(Head(imgs).data_zoom, Or(Head(imgs).data_src, Head(imgs).src))
             seen == \E i \in 1..Len(acc) : acc[i] = Val(src)
         IN  ExtractImages(Tail(imgs),
                           IF Truthy(src) /\ ~seen THEN Append(acc, Val(src)) ELSE acc)

\* "brand": attributes.get("Marca") or json_ld.get("brand", {}).get("name")
\*          if isinstance(json_ld.get("brand"), dict) else json_ld.get("brand")
Brand(attrs, ld) ==
    IF ld.brand.type = "dict" THEN Or(DictGet(attrs, <<"Marca">>), ld.brand.name)
    ELSE ld.brand.name

\* "model": attributes.get("Modelo") or json_ld.get("model")
Model(attrs, ld) == Or(DictGet(attrs, <<"Modelo">>), ld.model)

-----------------------------------------------------------------------------
(* scrape_ml_product *)

NotReady == "ProductNotAvailable: Essential elements not found"
Hollow == "ProductNotAvailable: Title and price unavailable"

NoElements == [kind |-> "", elems |-> <<>>]
NothingFound == [title |-> None, images |-> <<>>, latest |-> NoElements]
NoStock == [msg |-> None, in_stock |-> None]
NoCounts == [avg |-> None, rating |-> None, qna |-> None]

InitProduct ==
    /\ pc = "start" /\ arg = None /\ ret = NoRet /\ IdleDriver /\ IdleSearch
    /\ json_ld = NoBlock /\ found = NothingFound /\ title = None /\ price = None
    /\ stock = NoStock /\ var_options = EmptyDict /\ attributes = EmptyDict
    /\ images = <<>> /\ counts = NoCounts /\ data = None

\* The exception e leaves the try block: finally is next.
Fail(e) ==
    /\ pc' = "finally"
    /\ outcome' = Raised(e)
    /\ UNCHANGED <<arg, ret, browser, quits, svars>>

Step(next) ==
    /\ pc' = next
    /\ UNCHANGED <<arg, ret, dvars, svars>>

\* _init_driver: ChromeDriverManager().install() or webdriver.Chrome(...)
\* raises: there is no browser, and the exception leaves scrape_ml_product.
ProductInitChromeFails ==
    /\ pc = "start"
    /\ pc' = "done"
    /\ outcome' = Raised("WebDriverException")
    /\ UNCHANGED <<arg, ret, browser, quits, svars, pvars>>

\* _init_driver: webdriver.Chrome(...) has started the browser and
\* driver.execute_cdp_cmd raises: the exception leaves _init_driver and
\* scrape_ml_product, whose try block has not been entered.
ProductInitCdpFails ==
    /\ pc = "start"
    /\ browser' = "open"
    /\ pc' = "done"
    /\ outcome' = Raised("WebDriverException")
    /\ UNCHANGED <<arg, ret, quits, svars, pvars>>

\* driver = _init_driver(); wait = WebDriverWait(driver, timeout)
ProductInitDriver ==
    /\ pc = "start"
    /\ browser' = "open"
    /\ pc' = "get"
    /\ UNCHANGED <<arg, ret, quits, outcome, svars, pvars>>

\* wait.until(...) raises TimeoutException: raise ProductNotAvailable
ProductWaitTimeout ==
    /\ pc = "get"
    /\ Fail(NotReady)
    /\ UNCHANGED pvars

\* driver.get(url); wait.until(EC.any_of(...)); _jitter()
ProductReady ==
    /\ pc = "get"
    /\ Step("json_ld")
    /\ UNCHANGED pvars

\* A driver call outside the swallowing try blocks raises.
ProductDriverFails ==
    /\ pc \in {"get", "json_ld", "title", "price", "cents", "stock", "variations",
               "social", "attributes", "images"}
    /\ Fail("WebDriverException")
    /\ UNCHANGED pvars

\* json_ld = _get_json_ld(driver)
ProductJsonLd ==
    /\ pc = "json_ld"
    /\ \E scripts \in SeqsUpTo(Scripts, MaxScripts) : json_ld' = _get_json_ld(scripts)
    /\ Step("title")
    /\ UNCHANGED <<found, title, price, stock, var_options, attributes, images, counts, data>>

\* title = _try_selectors(...); if not title and json_ld.get("name"): title = json_ld["name"]
ProductTitle ==
    /\ pc = "title"
    /\ \E r \in Lookup(3, Texts({<<>>, <<"DomTitle">>}), None) :
        /\ ~r.raised
        /\ found' = [found EXCEPT !.title = r.val]
        /\ title' = IF ~Truthy(r.val) /\ Truthy(json_ld.name) THEN json_ld.name ELSE r.val
    /\ Step("price")
    /\ UNCHANGED <<json_ld, price, stock, var_options, attributes, images, counts, data>>

PriceContents == {None, Some(<<>>), Some(<<"0">>), Some(<<"1", "9", "9">>), Some(<<",">>)}

\* price_text = _try_selectors(..., attr="content"); price = _parse_price(price_text)
ProductPrice ==
    /\ pc = "price"
    /\ \E r \in Lookup(2, Contents(PriceContents), Some(<<"content">>)) :
        /\ ~r.raised
        /\ LET p == _parse_price(r.val)
           IN  IF p.raised
               THEN Fail(p.exc) /\ UNCHANGED price
               ELSE Step("cents") /\ price' = p.val
    /\ UNCHANGED <<json_ld, found, title, stock, var_options, attributes, images, counts, data>>

\* cents = _try_selectors(...)
\* if cents and price is not None and cents.isdigit(): price = float(...)
ProductCents ==
    /\ pc = "cents"
    /\ \E r \in Lookup(2, Texts({<<>>, <<"9", "0">>, <<"a", "b">>}), None) :
        /\ ~r.raised
        /\ LET cents == r.val
           IN  IF Truthy(cents) /\ price # None /\ IsDigitStr(Val(cents))
               THEN price' = Some(Composite(Val(price), Val(cents)))
               ELSE UNCHANGED price
    /\ Step("stock")
    /\ UNCHANGED <<json_ld, found, title, stock, var_options, attributes, images, counts, data>>

StockTexts ==
    { <<>>,
      <<"P", "r", "o", "d", "u", "t", "o", " ", "e", "s", "g", "o", "t", "a", "d", "o">>,
      <<"C", "h", "e", "g", "a", " ", "g", "r", "a_acute", "t", "i", "s">> }

\* stock_msg = _try_selectors(...); in_stock = ...
ProductStock ==
    /\ pc = "stock"
    /\ \E r \in Lookup(2, Texts(StockTexts), None) :
        /\ ~r.raised
        /\ stock' = [msg |-> r.val, in_stock |-> InStock(r.val)]
    /\ Step("variations")
    /\ UNCHANGED <<json_ld, found, title, price, var_options, attributes, images, counts, data>>

\* _scroll_into_view(...); var_options = {}; the variations try block
ProductVariations ==
    /\ pc = "variations"
    /\ \E blocks \in SeqsUpTo(Groups, MaxGroups) :
        /\ found' = [found EXCEPT !.latest = [kind |-> "variations", elems |-> blocks]]
        /\ var_options' = ExtractVariations(blocks, EmptyDict)
    /\ Step("social")
    /\ UNCHANGED <<json_ld, title, price, stock, attributes, images, counts, data>>

\* seller_name, seller_profile, reputation, rating_avg, rating_count, qna_count
\* and description, each by _try_selectors (only the three the record converts
\* are kept).
ProductSocial ==
    /\ pc = "social"
    /\ \E a \in Lookup(2, Texts({<<>>, <<"4", ".", "5">>}), None),
          r \in Lookup(2, Texts({<<>>, <<"(", "1", "2", ")">>}), None),
          q \in Lookup(2, Texts({<<>>, <<"1", "2">>, <<"a", "b">>}), None) :
        /\ ~a.raised /\ ~r.raised /\ ~q.raised
        /\ counts' = [avg |-> a.val, rating |-> r.val, qna |-> q.val]
    /\ found' = [found EXCEPT !.latest = NoElements]
    /\ Step("attributes")
    /\ UNCHANGED <<json_ld, title, price, stock, var_options, attributes, images, data>>

\* _scroll_into_view(...); attributes = {}; the attributes try block
ProductAttributes ==
    /\ pc = "attributes"
    /\ \E rows \in SeqsUpTo(Rows, MaxRows) :
        /\ found' = [found EXCEPT !.latest = [kind |-> "attributes", elems |-> rows]]
        /\ attributes' = ExtractAttributes(rows, EmptyDict)
    /\ Step("images")
    /\ UNCHANGED <<json_ld, title, price, stock, var_options, images, counts, data>>

\* _scroll_into_view(...); images = []; the images try block;
\* if not images and json_ld.get("image"): images = the list, or [the string]
ProductImages ==
    /\ pc = "images"
    /\ \E imgs \in SeqsUpTo(Imgs, MaxImgs) :
        LET dom == ExtractImages(imgs, <<>>)
        IN  /\ found' = [found EXCEPT !.images = dom, !.latest = NoElements]
            /\ images' = IF dom = <<>> /\ json_ld.image.type # "none"
                         THEN json_ld.image.v ELSE dom
    /\ Step("assemble")
    /\ UNCHANGED <<json_ld, title, price, stock, var_options, attributes, counts, data>>

\* breadcrumbs (not modelled); data = {...}: the conversions of social_proof
\* can raise.
ProductAssemble ==
    /\ pc = "assemble"
    /\ LET average == _parse_price(counts.avg)
           rating == RatingCount(counts.rating)
           qna == QnaCount(counts.qna)
       IN  IF average.raised \/ rating.raised \/ qna.raised
           THEN Fail("ValueError") /\ UNCHANGED data
           ELSE /\ Step("check")
                /\ data' = Some([title |-> title,
                                 brand |-> Brand(attributes, json_ld),
                                 model |-> Model(attributes, json_ld),
                                 attributes |-> attributes,
                                 images |-> images,
                                 options |-> var_options,
                                 price |-> price,
                                 in_stock |-> stock.in_stock,
                                 stock_message |-> stock.msg,
                                 rating_average |-> average.val,
                                 rating_count |-> rating.val,
                                 qna_count |-> qna.val])
    /\ UNCHANGED <<json_ld, found, title, price, stock, var_options, attributes, images,
                   counts>>

\* bool(price) of an Optional[float]: None and 0.0 are false.
TruthyNumber(p) == p # None /\ Val(p).m # 0

\* if not title and not price: raise ProductNotAvailable(...); return data
ProductCheck ==
    /\ pc = "check"
    /\ pc' = "finally"
    /\ outcome' = IF ~Truthy(title) /\ ~TruthyNumber(price) THEN Raised(Hollow)
                  ELSE Returned(data)
    /\ UNCHANGED <<arg, ret, browser, quits, svars, pvars>>

\* finally: driver.quit(); then the pending return or raise.
ProductQuit ==
    /\ pc = "finally"
    /\ browser' = "closed"
    /\ quits' = quits + 1
    /\ pc' = "done"
    /\ UNCHANGED <<arg, ret, outcome, svars, pvars>>

NextProduct ==
    \/ ProductInitChromeFails
    \/ ProductInitCdpFails
    \/ ProductInitDriver
    \/ ProductWaitTimeout
    \/ ProductReady
    \/ ProductDriverFails
    \/ ProductJsonLd
    \/ ProductTitle
    \/ ProductPrice
    \/ ProductCents
    \/ ProductStock
    \/ ProductVariations
    \/ ProductSocial
    \/ ProductAttributes
    \/ ProductImages
    \/ ProductAssemble
    \/ ProductCheck
    \/ ProductQuit

SpecProduct == InitProduct /\ [][NextProduct]_vars

-----------------------------------------------------------------------------
(* Claims about the helpers *)

\* The value lookup i of the chain in arg hands to _try_selectors.
Yield(i) ==
    IF arg.attr # None THEN arg.selectors[i].attribute ELSE Some(arg.selectors[i].text)

Hit(i) == arg.selectors[i].kind = "element" /\ Truthy(Yield(i))

Fails(i) == arg.selectors[i].kind = "WebDriverException"

\* C3: _try_selectors returns the value of the lowest-index locator that
\* yields a non-empty value; a locator that is not found, or whose text or
\* attribute is empty or null, is a miss; when every locator misses the result
\* is None and nothing is raised.  (A lookup that fails otherwise than by
\* "not found" before any hit is the only way the call raises.)
C3_FirstNonEmptyWins ==
    (pc = "done" /\ ret.fn = "_try_selectors") =>
        LET n == Len(arg.selectors)
            hits == {i \in 1..n : Hit(i)}
            errs == {i \in 1..n : Fails(i)}
            first == CHOOSE i \in hits : \A j \in hits : i <= j
        IN  /\ (hits # {} /\ \A j \in errs : j > first) => ret.result = Returned(Yield(first))
            /\ (hits = {} /\ errs = {}) => ret.result = Returned(None)
            /\ ret.result.raised <=> (\E j \in errs : \A i \in hits : j < i)

\* Two locators both yield different non-empty values after a miss, and the
\* earlier one's value was returned.
C3_Witness ==
    /\ pc = "done" /\ ret.fn = "_try_selectors"
    /\ \E i, j \in 1..Len(arg.selectors) :
        /\ 1 < i /\ i < j /\ Hit(i) /\ Hit(j) /\ Yield(i) # Yield(j)
        /\ \A k \in 1..(i - 1) : ~Hit(k) /\ ~Fails(k)
        /\ \E k \in 1..(i - 1) : arg.selectors[k].kind = "element"
        /\ ret.result = Returned(Yield(i))

\* The stem of "último", "última", "últimas": a token meaning "last unit".
ultim == <<"u_acute", "l", "t", "i", "m">>

\* C5: in_stock is false when the message contains, case-insensitively, a
\* token meaning "sold out" or "last unit", true for any other present
\* message, and None when the message is absent.
C5_AvailabilityInference ==
    (pc = "done" /\ ret.fn = "in_stock") =>
        ret.result.val =
            IF ~Truthy(arg) THEN None
            ELSE Some(~(SearchI(esgotado, Val(arg)) \/ SearchI(ultim, Val(arg))))

\* The cleaned text of _parse_price's argument, and whether it is a number.
Cleaned == Filter(Val(arg), Digits \cup {","})

Malformed == Len(Filter(Cleaned, {","})) > 1 \/ Filter(Cleaned, Digits) = <<>>

\* C6: _parse_price never raises; it returns None when the text is empty or
\* nothing is left after cleaning, None when the cleaned text is a malformed
\* number, and otherwise the amount ("R$ 1.234,56" gives 1234.56).
C6_ParsePriceNeverRaises ==
    (pc = "done" /\ ret.fn = "_parse_price") =>
        /\ ~ret.result.raised
        /\ (~Truthy(arg) \/ Cleaned = <<>> \/ Malformed) => ret.result.val = None
        /\ (Truthy(arg) /\ Cleaned # <<>> /\ ~Malformed) => ret.result.val # None
        /\ arg = Some(PriceExample) => ret.result.val = Some([m |-> 123456, e |-> 2])

\* C7: for the rating count and the question count, all non-digit characters
\* are stripped; if no digit remains the count is None and nothing is raised;
\* otherwise the count is the integer the remaining digits form.
C7_CountParsing ==
    (pc = "done" /\ ret.fn \in {"rating_count", "qna_count"} /\ Truthy(arg)) =>
        LET digs == Filter(Val(arg), Digits)
        IN  ret.result = IF digs = <<>> THEN Returned(None)
                         ELSE Returned(Some(IntOfDigits(digs)))

-----------------------------------------------------------------------------
(* Claims about scrape_ml_search *)

\* The items of the k-th loaded page whose fields can all be read, in order.
OkItems(k) ==
    LET content == loaded[k].items
        F[i \in 0..Len(content)] ==
            IF i = 0 THEN <<>>
            ELSE IF content[i] THEN Append(F[i - 1], [page |-> k, pos |-> i])
            ELSE F[i - 1]
    IN  F[Len(content)]

\* The readable items of every loaded page, in the order the pages were loaded.
AllOk == Concat([k \in 1..Len(loaded) |-> OkItems(k)])

Take(s, n) == SubSeq(s, 1, IF n < Len(s) THEN n ELSE Len(s))

\* C2: scrape_ml_search returns at most limit items, loads at most pages
\* pages and none once either bound is reached, returns the readable items of
\* the loaded pages in page order and stops mid-page at limit (ten-item
\* pages with limit 15 and 2 pages give the ten items of the first page and
\* the first five of the second).
C2_BoundedTraversal ==
    /\ Len(results) <= limit
    /\ Len(loaded) <= pages
    /\ \A k \in 1..Len(loaded) : loaded[k].had < limit
    /\ results = Take(AllOk, Len(results))
    /\ (pc = "done" /\ ~outcome.raised) =>
        /\ outcome.val = Some(results)
        /\ results = Take(AllOk, limit)
    /\ (pc = "done" /\ ~outcome.raised /\ arg.site = "tens" /\ Len(loaded) = 2) =>
        /\ Len(results) = 15
        /\ \A i \in 1..15 : results[i] = IF i <= 10 THEN [page |-> 1, pos |-> i]
                                         ELSE [page |-> 2, pos |-> i - 10]

\* The call with limit 15 and 2 pages has returned fifteen items, the last
\* one the fifth item of the second page, which held ten.
C2_Witness ==
    /\ pc = "done" /\ ~outcome.raised
    /\ limit = 15 /\ pages = 2 /\ Len(loaded) = 2
    /\ Len(loaded[2].items) = 10
    /\ Len(results) = 15 /\ results[15] = [page |-> 2, pos |-> 5]

\* Once the next-page lookup of the latest page found no link, or an empty
\* href, the traversal is over and returns what it has accumulated, which is
\* every readable item of the pages loaded.
NoNextEndsNormally ==
    LET n == Len(loaded)
    IN  (n > 0 /\ loaded[n].next \in {"missing", "empty"}) =>
            /\ pc \in {"finally", "done"}
            /\ outcome = Returned(Some(results))
            /\ results = AllOk
            /\ n = 1 => results = OkItems(1)

\* C8: scrape_ml_search never fails because the next-page reference is
\* missing or empty: it then ends normally and returns exactly the items
\* accumulated so far, whatever the page limit; and the traversal always
\* terminates.
C8_MissingNextTerminates == [](NoNextEndsNormally) /\ <>(pc = "done")

\* Page 1 held readable items and no next link, the page limit was the largest
\* and was not reached, and the call returned page 1's items.
C8_Witness ==
    /\ pc = "done" /\ ~outcome.raised
    /\ pages = MaxPages /\ Len(loaded) = 1 /\ loaded[1].next = "missing"
    /\ results # <<>> /\ results = OkItems(1) /\ outcome.val = Some(results)

-----------------------------------------------------------------------------
(* Claims about scrape_ml_product *)

\* The completeness check has been reached: the call returns the record or
\* raises for a hollow one.
Checked == pc \in {"finally", "done"} /\ (~outcome.raised \/ outcome.exc = Hollow)

\* C1: once every field has been extracted, scrape_ml_product raises
\* ProductNotAvailable when title and price are both absent and returns the
\* assembled record whenever at least one is present, whatever its value.
C1_Completeness ==
    Checked =>
        IF title = None /\ price = None THEN outcome = Raised(Hollow)
        ELSE /\ outcome = Returned(data)
             /\ Val(data).title = title /\ Val(data).price = price

\* The value the JSON-LD block gives for the brand: the string, or the name
\* of the dict.
LdBrand == json_ld.brand.name

\* C4: for title, brand, model and images, the returned record carries the
\* DOM value whenever it is present, for every shape of the JSON-LD block,
\* and the JSON-LD value only when the DOM value is absent.
C4_DomTakesPrecedence ==
    (pc = "done" /\ ~outcome.raised) =>
        LET record == Val(outcome.val)
            marca == DictGet(attributes, <<"Marca">>)
            modelo == DictGet(attributes, <<"Modelo">>)
        IN  /\ record.title = IF Truthy(found.title) THEN found.title ELSE json_ld.name
            /\ record.brand = IF Truthy(marca) THEN marca ELSE LdBrand
            /\ record.model = IF Truthy(modelo) THEN modelo ELSE json_ld.model
            /\ record.images = IF found.images # <<>> THEN found.images ELSE json_ld.image.v

\* C9: a lookup failure in one variation group or one table row does not
\* abort the others: every group and every row that can itself be read is in
\* var_options / attributes, whatever fails before it.
C9_FailuresAreLocal ==
    LET elems == found.latest.elems
    IN  /\ found.latest.kind = "variations" =>
            \A i \in 1..Len(elems) :
                elems[i].subtitle # None =>
                    /\ Val(elems[i].subtitle) \in DOMAIN var_options
                    /\ var_options[Val(elems[i].subtitle)] = elems[i].opts
        /\ (/\ found.latest.kind = "attributes"
            /\ \A i \in 1..Len(elems) : elems[i].kind # "WebDriverException") =>
            \A i \in 1..Len(elems) :
                (elems[i].kind = "row" /\ elems[i].k # <<>>) =>
                    elems[i].k \in DOMAIN attributes

\* C10: every browser session opened is closed (driver.quit) exactly once
\* before the call returns or raises, on every exit path.
C10_SessionClosedOnce ==
    /\ quits <= 1
    /\ quits = 1 <=> browser = "closed"
    /\ (pc = "done" /\ browser # "none") => browser = "closed"

=============================================================================
